---- MODULE Spec2Model ----
(***************************************************************************)
(* Model of flume's Factory (factory.go): the registry of named loggers,   *)
(* the atomically swappable logger cell of every entry, the level-string   *)
(* DSL and the structured Configure call.                                  *)
(*                                                                         *)
(* Strings are sequences of one-character strings, so that strings.Split,  *)
(* strings.HasPrefix and strings.ToLower are computed as the code computes *)
(* them.  Pointers are indices into the sequence infos (the allocated      *)
(* loggerInfo objects); a loggerInfo embeds its atomicLogger, so the index *)
(* of a loggerInfo is also the identity of its handle.                     *)
(***************************************************************************)
EXTENDS Integers, Sequences, FiniteSets, TLC

VARIABLES
    defaultLevel,   \* Factory.defaultLevel (the value held by the zap.AtomicLevel)
    encoder,        \* Factory.encoder (Nil until SetEncoder/Configure)
    out,            \* Factory.out (Nil until SetOut)
    addCaller,      \* Factory.addCaller
    loggers,        \* Factory.loggers: name -> pointer (index into infos)
    infos,          \* the allocated loggerInfo objects: levelEnabler, atomicLogger
    facades,        \* the logger objects handed out by NewLogger (id and name: history)
    restorers,      \* the closures returned by SetOut that callers still hold
    last,           \* history: the operation that returned last, its arguments and result
    calls,          \* history: how many calls were made on the Factory
    lock,           \* Factory.Mutex: the thread holding it, or Nil
    th,             \* per thread: the steps left of its running call, and its locals
    existed,        \* history: the instances the settings of some past state called for
    arrays,         \* the arrays that back the context slices of the loggers
    logs            \* history: how many logging calls were begun

vars == <<defaultLevel, encoder, out, addCaller, loggers, infos, facades, restorers,
          last, calls, lock, th, existed, arrays, logs>>

----------------------------------------------------------------------------
(* Bounds *)

\* How many restorer closures callers keep at a time.
MaxRestorers == 1

\* How many calls are made on the Factory in one run.
MaxCalls == 4

\* How many calls on the Factory the threads make in one run with concurrent
\* threads (reads through loggers are not counted).
MaxConcCalls == 2

\* How many loggers are derived with With in one run.
MaxWith == 3

\* How many logging calls are made in one run.
MaxLogs == 2

----------------------------------------------------------------------------
(* Values *)

Nil == "nil"

\* The levels, ordered by verbosity: a level enables every severity whose
\* rank is at most the level.
OffLevel == 0
ErrorLevel == 1
InfoLevel == 2
DebugLevel == 3
AllLevel == 4
\* deprecated aliases
WarnLevel == InfoLevel
PanicLevel == ErrorLevel

Levels == {OffLevel, ErrorLevel, InfoLevel, DebugLevel, AllLevel}

\* The severities a record can be logged at, with the least level enabling it.
Severities == {"error", "info", "debug"}
SeverityRank(s) == CASE s = "error" -> ErrorLevel
                     [] s = "info" -> InfoLevel
                     [] s = "debug" -> DebugLevel

\* zapcore.LevelEnabler.Enabled, as the set of severities a level lets through.
Enables(l) == {s \in Severities : SeverityRank(s) <= l}

\* The values of a zapcore.LevelEnabler field: nil, a fixed zapcore.Level, or
\* the zap.AtomicLevel r.defaultLevel (a reference to the shared default,
\* read live by whoever holds it).
NilEnabler == [kind |-> "nil"]
FixedLevel(l) == [kind |-> "Level", level |-> l]
DefaultRef == [kind |-> "AtomicLevel"]

\* The nil Encoder.
NilEncoder == [kind |-> "nil"]

\* The content of an atomic.Value nothing was stored in.
NoLogger == [kind |-> "empty"]

----------------------------------------------------------------------------
(* Strings *)

UpperCase == <<"A","B","C","D","E","F","G","H","I","J","K","L","M",
               "N","O","P","Q","R","S","T","U","V","W","X","Y","Z">>
LowerCase == <<"a","b","c","d","e","f","g","h","i","j","k","l","m",
               "n","o","p","q","r","s","t","u","v","w","x","y","z">>

ToLowerChar(c) ==
    IF \E i \in 1..26 : UpperCase[i] = c
    THEN LowerCase[CHOOSE i \in 1..26 : UpperCase[i] = c]
    ELSE c

\* strings.ToLower
ToLower(s) == [i \in 1..Len(s) |-> ToLowerChar(s[i])]

\* strings.HasPrefix(s, p) for a one-character p
HasPrefix(s, c) == Len(s) >= 1 /\ s[1] = c

\* strings.Split(s, sep) for a one-character sep
RECURSIVE Split(_, _)
Split(s, sep) ==
    IF \E i \in 1..Len(s) : s[i] = sep
    THEN LET i == CHOOSE i \in 1..Len(s) :
                     s[i] = sep /\ \A j \in 1..(i-1) : s[j] # sep
         IN  <<SubSeq(s, 1, i-1)>> \o Split(SubSeq(s, i+1, Len(s)), sep)
    ELSE <<s>>

\* Go map assignment m[k] = v
MapPut(m, k, v) == [x \in (DOMAIN m) \cup {k} |-> IF x = k THEN v ELSE m[x]]
EmptyMap == [x \in {} |-> Nil]

\* The names and words of the level strings.
STAR == <<"*">>
HTTP == <<"h","t","t","p">>
SQL == <<"s","q","l">>
COMMA == <<",">>
EQ == <<"=">>
DASH == <<"-">>

----------------------------------------------------------------------------
(* levelForAbbr *)

\* levelForAbbr that switches on the abbreviation as written.
levelForAbbr_caseSensitive(abbr) ==
    LET a == abbr IN
    CASE a = <<>> -> [level |-> AllLevel, err |-> Nil]
      [] a = <<"o","f","f">> -> [level |-> OffLevel, err |-> Nil]
      [] a \in {<<"t","r","c">>, <<"t","r","a","c","e">>} ->
            [level |-> DebugLevel, err |-> "TRC is deprecated, mapped to DEBUG"]
      [] a \in {<<"d","b","g">>, <<"d","e","b","u","g">>} ->
            [level |-> DebugLevel, err |-> Nil]
      [] a \in {<<"i","n","f">>, <<"i","n","f","o">>} ->
            [level |-> InfoLevel, err |-> Nil]
      [] a \in {<<"w","r","n">>, <<"w","a","r","n">>} ->
            [level |-> WarnLevel, err |-> "WRN is deprecated, use INF"]
      [] a \in {<<"e","r","r">>, <<"e","r","r","o","r">>} ->
            [level |-> ErrorLevel, err |-> Nil]
      [] a \in {<<"p","a","n">>, <<"p","a","n","i","c">>} ->
            [level |-> PanicLevel, err |-> "PAN is deprecated, use ERR"]
      [] a \in {<<"f","t","l">>, <<"f","a","t","a","l">>} ->
            [level |-> PanicLevel, err |-> "FTL is deprecated, use ERR, mapped to PANIC"]
      [] OTHER -> [level |-> WarnLevel, err |-> "not recognized level, defaulting to warn"]

\* Returns the level and the error (Nil or its message).
levelForAbbr(abbr) ==
    LET a == ToLower(abbr) IN
    CASE a = <<>> -> [level |-> AllLevel, err |-> Nil]
      [] a = <<"o","f","f">> -> [level |-> OffLevel, err |-> Nil]
      [] a \in {<<"t","r","c">>, <<"t","r","a","c","e">>} ->
            [level |-> DebugLevel, err |-> "TRC is deprecated, mapped to DEBUG"]
      [] a \in {<<"d","b","g">>, <<"d","e","b","u","g">>} ->
            [level |-> DebugLevel, err |-> Nil]
      [] a \in {<<"i","n","f">>, <<"i","n","f","o">>} ->
            [level |-> InfoLevel, err |-> Nil]
      [] a \in {<<"w","r","n">>, <<"w","a","r","n">>} ->
            [level |-> WarnLevel, err |-> "WRN is deprecated, use INF"]
      [] a \in {<<"e","r","r">>, <<"e","r","r","o","r">>} ->
            [level |-> ErrorLevel, err |-> Nil]
      [] a \in {<<"p","a","n">>, <<"p","a","n","i","c">>} ->
            [level |-> PanicLevel, err |-> "PAN is deprecated, use ERR"]
      [] a \in {<<"f","t","l">>, <<"f","a","t","a","l">>} ->
            [level |-> PanicLevel, err |-> "FTL is deprecated, use ERR, mapped to PANIC"]
      [] OTHER -> [level |-> WarnLevel, err |-> "not recognized level, defaulting to warn"]

----------------------------------------------------------------------------
(* parseConfigString *)

\* parseSetting with the "-" prefix test left out.
parseSetting_keepDash(m, setting) ==
    LET parts == Split(setting, "=") IN
    CASE Len(parts) = 1 -> MapPut(m, parts[1], [kind |-> "bool", b |-> TRUE])
      [] Len(parts) = 2 -> MapPut(m, parts[1], [kind |-> "string", s |-> parts[2]])
      [] OTHER -> m

\* One item of the comma-separated list, added to the map m.
parseSetting(m, setting) ==
    LET parts == Split(setting, "=") IN
    CASE Len(parts) = 1 ->
            IF HasPrefix(parts[1], "-")
            THEN MapPut(m, SubSeq(parts[1], 2, Len(parts[1])), [kind |-> "bool", b |-> FALSE])
            ELSE MapPut(m, parts[1], [kind |-> "bool", b |-> TRUE])
      [] Len(parts) = 2 -> MapPut(m, parts[1], [kind |-> "string", s |-> parts[2]])
      [] OTHER -> m

RECURSIVE parseSettings(_, _, _)
parseSettings(items, i, m) ==
    IF i > Len(items) THEN m
    ELSE parseSettings(items, i + 1, parseSetting(m, items[i]))

\* The nil map returned for "" ranges like the empty map.
parseConfigString(s) ==
    IF s = <<>> THEN EmptyMap
    ELSE parseSettings(Split(s, ","), 1, EmptyMap)

----------------------------------------------------------------------------
(* The Factory.  The operations are functions of a record f holding the    *)
(* Factory's fields and the loggerInfo objects; f.stores collects the      *)
(* handles atomicLogger.set was called on during the running call.         *)

Fac == [defaultLevel |-> defaultLevel, encoder |-> encoder, out |-> out,
        addCaller |-> addCaller, loggers |-> loggers, infos |-> infos,
        stores |-> {}]

\* NewLTSVEncoder(NewEncoderConfig()), the fallback of getEncoder
LTSVDefault == [kind |-> "ltsv", cfg |-> "prod"]

getEncoder(f) == IF f.encoder = NilEncoder THEN LTSVDefault ELSE f.encoder

Stdout == "os.Stdout"

getOut(f) == IF f.out = Nil THEN Stdout ELSE f.out

\* The *zap.SugaredLogger built from the current settings.
newLogger(f, name, info) ==
    [kind |-> "SugaredLogger",
     name |-> name,
     enc |-> getEncoder(f),
     out |-> getOut(f),
     level |-> IF info.levelEnabler # NilEnabler THEN info.levelEnabler ELSE DefaultRef,
     addCaller |-> f.addCaller]

\* atomicLogger.set on the handle of the loggerInfo at p
set(f, p, logger) ==
    [f EXCEPT !.infos[p].innerLoggerPtr = logger, !.stores = @ \cup {p}]

\* atomicLogger.get
get(is, p) == is[p].innerLoggerPtr

RECURSIVE refreshNames(_, _)
refreshNames(f, names) ==
    IF names = {} THEN f
    ELSE LET name == CHOOSE n \in names : TRUE
             p == f.loggers[name]
         IN  refreshNames(set(f, p, newLogger(f, name, f.infos[p])), names \ {name})

\* refreshLoggers leaving its loop after the first entry.
refreshLoggers_firstOnly(f) ==
    IF DOMAIN f.loggers = {} THEN f
    ELSE refreshNames(f, {CHOOSE n \in DOMAIN f.loggers : TRUE})

refreshLoggers(f) == refreshNames(f, DOMAIN f.loggers)

\* A new loggerInfo, its handle still empty, entered in the map under the name.
allocInfo(f, name) ==
    [f EXCEPT !.infos = Append(@, [levelEnabler |-> NilEnabler,
                                   innerLoggerPtr |-> NoLogger]),
              !.loggers = MapPut(@, name, Len(f.infos) + 1)]

\* getLoggerInfo without the lookup: a new loggerInfo on every call.
getLoggerInfo_alwaysNew(f, name) ==
    LET f1 == allocInfo(f, name)
        p == f1.loggers[name]
    IN  [f |-> set(f1, p, newLogger(f1, name, f1.infos[p])), info |-> p]

\* Returns the Factory and the pointer to the name's loggerInfo.
getLoggerInfo(f, name) ==
    IF name \in DOMAIN f.loggers
    THEN [f |-> f, info |-> f.loggers[name]]
    ELSE LET f1 == allocInfo(f, name)
             p == f1.loggers[name]
         IN  [f |-> set(f1, p, newLogger(f1, name, f1.infos[p])), info |-> p]

\* A []interface{} value: the array it points into (an index into the heap h
\* of arrays, 0 for none) and its length; its capacity is the array's length.
NilSlice == [arr |-> 0, len |-> 0]
NilValue == [t |-> "nil"]
Value(x) == [t |-> "value", v |-> x]
Field(k, x) == [t |-> "Field", key |-> k, v |-> x]

cap(h, sl) == IF sl.arr = 0 THEN 0 ELSE Len(h[sl.arr])
Elems(h, sl) == IF sl.arr = 0 THEN <<>> ELSE SubSeq(h[sl.arr], 1, sl.len)

\* The capacity append grows to (runtime growslice, capacities under 256;
\* for 16-byte elements every capacity up to 16 is an allocation size).
GrowCap(oldCap, newLen) == IF newLen > 2 * oldCap THEN newLen ELSE 2 * oldCap

\* append(sl, args...): writes behind the length into sl's own array when the
\* capacity allows, else copies into a new array.
append(h, sl, args) ==
    LET newLen == sl.len + Len(args) IN
    IF Len(args) = 0 THEN [h |-> h, s |-> sl]
    ELSE IF newLen <= cap(h, sl)
    THEN [h |-> [h EXCEPT ![sl.arr] =
                    [i \in 1..Len(@) |->
                       IF i > sl.len /\ i <= newLen THEN args[i - sl.len] ELSE @[i]]],
          s |-> [arr |-> sl.arr, len |-> newLen]]
    ELSE [h |-> Append(h, [i \in 1..GrowCap(cap(h, sl), newLen) |->
                             IF i <= sl.len THEN Elems(h, sl)[i]
                             ELSE IF i <= newLen THEN args[i - sl.len]
                             ELSE NilValue]),
          s |-> [arr |-> Len(h) + 1, len |-> newLen]]

\* Returns the Factory and the logger value handed to the caller.
NewDeprecatedLogger(f, name) ==
    LET g == getLoggerInfo(f, name)
    IN  [f |-> g.f, logger |-> [atomicLogger |-> g.info, context |-> NilSlice]]

NewLogger(f, name) == NewDeprecatedLogger(f, name)

setLevel(f, name, l) ==
    LET g == getLoggerInfo(f, name)
    IN  [g.f EXCEPT !.infos[g.info].levelEnabler = FixedLevel(l)]

\* SetLevel without the rebuild pass.
SetLevel_noRefresh(f, name, l) == setLevel(f, name, l)

SetLevel(f, name, l) == refreshLoggers(setLevel(f, name, l))

SetDefaultLevel(f, l) == [f EXCEPT !.defaultLevel = l]

SetEncoder(f, e) == refreshLoggers([f EXCEPT !.encoder = e])

\* SetOut reading the prior sink after the assignment.
SetOut_priorAfter(f, w) ==
    [f |-> refreshLoggers([f EXCEPT !.out = w]), prior |-> w]

\* Returns the Factory and the sink the returned closure captured.
SetOut(f, w) ==
    [f |-> refreshLoggers([f EXCEPT !.out = w]), prior |-> f.out]

SetAddCaller(f, b) == refreshLoggers([f EXCEPT !.addCaller = b])

----------------------------------------------------------------------------
(* LevelsString *)

\* The levels of the parsed items (the type switch over the map's values).
levelMapOf(m) ==
    [k \in DOMAIN m |->
        IF m[k].kind = "bool"
        THEN (IF m[k].b THEN AllLevel ELSE OffLevel)
        ELSE levelForAbbr(m[k].s).level]

\* The messages of the abbreviations levelForAbbr complained about.  The code
\* appends them in map order, which no claim depends on: a set here.
errMsgsOf(m) ==
    {levelForAbbr(m[k].s).err : k \in {x \in DOMAIN m : m[x].kind = "string"}} \ {Nil}

\* The map without a key (Go's delete).
MapDelete(m, k) == [x \in (DOMAIN m) \ {k} |-> m[x]]

\* resetUnmentioned storing the default's current value, not the AtomicLevel.
resetUnmentioned_frozen(f, levelMap) ==
    [f EXCEPT !.infos =
        [p \in DOMAIN f.infos |->
            IF \E name \in (DOMAIN f.loggers) \ (DOMAIN levelMap) : f.loggers[name] = p
            THEN [f.infos[p] EXCEPT !.levelEnabler = FixedLevel(f.defaultLevel)]
            ELSE f.infos[p]]]

\* Existing loggers that are not in the level map are pointed at the default.
resetUnmentioned(f, levelMap) ==
    [f EXCEPT !.infos =
        [p \in DOMAIN f.infos |->
            IF \E name \in (DOMAIN f.loggers) \ (DOMAIN levelMap) : f.loggers[name] = p
            THEN [f.infos[p] EXCEPT !.levelEnabler = DefaultRef]
            ELSE f.infos[p]]]

\* setLevel for every item of the level map.
RECURSIVE setLevels(_, _, _)
setLevels(f, levelMap, names) ==
    IF names = {} THEN f
    ELSE LET name == CHOOSE n \in names : TRUE
         IN  setLevels(setLevel(f, name, levelMap[name]), levelMap, names \ {name})

\* Returns the Factory and the error ({} for nil).
LevelsString(f, s) ==
    LET m == parseConfigString(s)
        levelMap0 == levelMapOf(m)
        errMsgs == errMsgsOf(m)
        f1 == IF STAR \in DOMAIN levelMap0
              THEN SetDefaultLevel(f, levelMap0[STAR])
              ELSE f
        levelMap == IF STAR \in DOMAIN levelMap0
                    THEN MapDelete(levelMap0, STAR)
                    ELSE levelMap0
        f2 == resetUnmentioned(f1, levelMap)
        f3 == setLevels(f2, levelMap, DOMAIN levelMap)
    IN  IF errMsgs # {}
        THEN [f |-> f3, err |-> errMsgs]
        ELSE [f |-> refreshLoggers(f3), err |-> {}]

----------------------------------------------------------------------------
(* Configure *)

\* cfg.EncoderConfig, or the development or production defaults.
encCfgOf(cfg) ==
    IF cfg.EncoderConfig # Nil THEN cfg.EncoderConfig
    ELSE IF cfg.Development THEN "dev" ELSE "prod"

Encodings == {"json", "ltsv", "term", "term-color", "console", ""}

\* The encoder the switch over cfg.Encoding builds.
encoderOf(cfg) ==
    LET encCfg == encCfgOf(cfg) IN
    CASE cfg.Encoding = "json" -> [kind |-> "json", cfg |-> encCfg]
      [] cfg.Encoding = "ltsv" -> [kind |-> "ltsv", cfg |-> encCfg]
      [] cfg.Encoding = "term" -> [kind |-> "console", cfg |-> encCfg]
      [] cfg.Encoding = "term-color" -> [kind |-> "colorized-console", cfg |-> encCfg]
      [] cfg.Encoding = "console" -> [kind |-> "zapcore-console", cfg |-> encCfg]
      [] cfg.Encoding = "" ->
            IF cfg.Development
            THEN [kind |-> "colorized-console", cfg |-> encCfg]
            ELSE [kind |-> "ltsv", cfg |-> encCfg]

\* Configure checking the encoding before it touches the default level.
Configure_validateFirst(f, cfg) ==
    IF cfg.Encoding \notin Encodings
    THEN [f |-> f, err |-> {"is not a valid encoding"}]
    ELSE LET cfgAddCaller == IF cfg.AddCaller # Nil
                             THEN cfg.AddCaller = "true"
                             ELSE cfg.Development
             f2 == LevelsString(SetDefaultLevel(f, cfg.DefaultLevel), cfg.Levels).f
         IN  [f |-> refreshLoggers([f2 EXCEPT !.encoder = encoderOf(cfg),
                                              !.addCaller = cfgAddCaller]),
              err |-> {}]

\* Configure returning the error of LevelsString when there is one.
Configure_returnsLevelsErr(f, cfg) ==
    LET f1 == SetDefaultLevel(f, cfg.DefaultLevel) IN
    IF cfg.Encoding \notin Encodings
    THEN [f |-> f1, err |-> {"is not a valid encoding"}]
    ELSE LET cfgAddCaller == IF cfg.AddCaller # Nil
                             THEN cfg.AddCaller = "true"
                             ELSE cfg.Development
             ls == LevelsString(f1, cfg.Levels)
         IN  IF ls.err # {}
             THEN ls
             ELSE [f |-> refreshLoggers([ls.f EXCEPT !.encoder = encoderOf(cfg),
                                                     !.addCaller = cfgAddCaller]),
                   err |-> {}]

\* Configure storing cfg.DefaultLevel after the levels were applied.
Configure_defaultLast(f, cfg) ==
    IF cfg.Encoding \notin Encodings
    THEN [f |-> SetDefaultLevel(f, cfg.DefaultLevel), err |-> {"is not a valid encoding"}]
    ELSE LET cfgAddCaller == IF cfg.AddCaller # Nil
                             THEN cfg.AddCaller = "true"
                             ELSE cfg.Development
             f2 == SetDefaultLevel(LevelsString(f, cfg.Levels).f, cfg.DefaultLevel)
         IN  [f |-> refreshLoggers([f2 EXCEPT !.encoder = encoderOf(cfg),
                                              !.addCaller = cfgAddCaller]),
              err |-> {}]

\* Configure checking the encoding after the levels were applied.
Configure_validateLate(f, cfg) ==
    LET f1 == SetDefaultLevel(f, cfg.DefaultLevel)
        f2 == LevelsString(f1, cfg.Levels).f
    IN  IF cfg.Encoding \notin Encodings
        THEN [f |-> f2, err |-> {"is not a valid encoding"}]
        ELSE LET cfgAddCaller == IF cfg.AddCaller # Nil
                                 THEN cfg.AddCaller = "true"
                                 ELSE cfg.Development
             IN  [f |-> refreshLoggers([f2 EXCEPT !.encoder = encoderOf(cfg),
                                                  !.addCaller = cfgAddCaller]),
                  err |-> {}]

\* Returns the Factory and the error ({} for nil).
Configure(f, cfg) ==
    LET f1 == SetDefaultLevel(f, cfg.DefaultLevel) IN
    IF cfg.Encoding \notin Encodings
    THEN [f |-> f1, err |-> {"is not a valid encoding"}]
    ELSE LET cfgAddCaller == IF cfg.AddCaller # Nil
                             THEN cfg.AddCaller = "true"
                             ELSE cfg.Development
             f2 == LevelsString(f1, cfg.Levels).f
         IN  [f |-> refreshLoggers([f2 EXCEPT !.encoder = encoderOf(cfg),
                                              !.addCaller = cfgAddCaller]),
              err |-> {}]

----------------------------------------------------------------------------
(* The logger: context and logging calls *)

\* A bare value passed alone becomes a field with an empty name.
normalizeArgs(args) ==
    IF Len(args) = 1
    THEN IF args[1].t = "Field" THEN args ELSE <<Field("", args[1].v)>>
    ELSE args

\* clone that keeps the parent's slice instead of copying it.
clone_shared(h, l) == [h |-> h, l |-> l]

\* A copy of the logger whose context is a copy of l's in an array of its own.
clone(h, l) ==
    IF l.context.len > 0
    THEN LET r == append(h, NilSlice, Elems(h, l.context))
         IN  [h |-> r.h, l |-> [l EXCEPT !.context = r.s]]
    ELSE [h |-> h, l |-> [l EXCEPT !.context = NilSlice]]

\* The heap after With: the array clone allocated is unreferenced once append
\* has copied it into a larger one, and is dropped.
Collect(h0, h1, sl) ==
    IF Len(h1) = Len(h0) + 2
    THEN [h |-> Append(h0, h1[Len(h1)]), s |-> [sl EXCEPT !.arr = Len(h0) + 1]]
    ELSE [h |-> h1, s |-> sl]

\* Returns the heap and the derived logger.
With(h, l, args) ==
    LET c == clone(h, l)
        a == normalizeArgs(args)
        r == IF Len(a) = 0 THEN [h |-> c.h, s |-> c.l.context]
             ELSE append(c.h, c.l.context, a)
        g == Collect(h, r.h, r.s)
    IN  [h |-> g.h, l |-> [c.l EXCEPT !.context = g.s]]

DoLoad(fa) == [i |-> "Load", fa |-> fa]
DoMerge(fa, a) == [i |-> "Merge", fa |-> fa, a |-> a]
DoForward(fa, args) == [i |-> "Forward", fa |-> fa, args |-> args]

\* Trace, Debug, Info, Warn, Error, Fatal: l.get(), then the merge of context
\* and arguments when there is a context, then the call of the instance.
ProgLog(fa, args) ==
    IF fa.logger.context.len > 0
    THEN <<DoLoad(fa), DoMerge(fa, normalizeArgs(args)), DoForward(fa, args)>>
    ELSE <<DoLoad(fa), DoForward(fa, args)>>

----------------------------------------------------------------------------
(* Inputs *)

Names == {HTTP, SQL}

Threads == {"t1", "t2"}

\* A thread that is in no call.
IdleThread ==
    [todo |-> <<>>, id |-> 0, info |-> 0, prior |-> Nil, before |-> Nil,
     seen |-> NoLogger, merged |-> NilSlice, buf |-> <<>>]

EncoderInputs == {NilEncoder, [kind |-> "json", cfg |-> "custom"]}

WriterInputs == {"w1", "w2"}

INF == <<"I","N","F">>
WRN == <<"W","R","N">>
dbg == <<"d","b","g">>
bogus == <<"b","o","g","u","s">>

S_Empty == <<>>
S_StarInfHttp == STAR \o EQ \o INF \o COMMA \o HTTP
S_StarInfDashHttp == STAR \o EQ \o INF \o COMMA \o DASH \o HTTP
S_HttpWrn == HTTP \o EQ \o WRN
S_StarDbgSqlBogus == STAR \o EQ \o dbg \o COMMA \o SQL \o EQ \o bogus
S_HttpDbg == HTTP \o EQ \o dbg
S_Star == STAR

LevelStrings == {S_Empty, S_StarInfHttp, S_StarInfDashHttp, S_HttpWrn,
                 S_StarDbgSqlBogus, S_HttpDbg, S_Star}

Config(lvl, encoding, dev, ac, levels) ==
    [DefaultLevel |-> lvl, EncoderConfig |-> Nil, Encoding |-> encoding,
     Development |-> dev, AddCaller |-> ac, Levels |-> levels]

Configs == {Config(InfoLevel, "", FALSE, Nil, S_Empty),
            Config(DebugLevel, "json", TRUE, Nil, S_HttpWrn),
            Config(ErrorLevel, "xml", FALSE, "true", S_StarInfHttp),
            Config(ErrorLevel, "term", FALSE, "false", S_StarInfHttp)}

----------------------------------------------------------------------------
(* The calls, each run to completion *)

Install(f) ==
    /\ defaultLevel' = f.defaultLevel
    /\ encoder' = f.encoder
    /\ out' = f.out
    /\ addCaller' = f.addCaller
    /\ loggers' = f.loggers
    /\ infos' = f.infos

Init ==
    /\ defaultLevel = OffLevel
    /\ encoder = NilEncoder
    /\ out = Nil
    /\ addCaller = FALSE
    /\ loggers = EmptyMap
    /\ infos = <<>>
    /\ facades = {}
    /\ restorers = {}
    /\ last = [op |-> "NewFactory"]
    /\ calls = 0
    /\ lock = Nil
    /\ th = [t \in Threads |-> IdleThread]
    /\ existed = {}
    /\ arrays = <<>>
    /\ logs = 0

\* One more call is made.
Call ==
    /\ calls < MaxCalls
    /\ calls' = calls + 1
    /\ UNCHANGED <<lock, th, existed, arrays, logs>>

CallNewLogger(name) ==
    LET g == NewLogger(Fac, name) IN
    /\ Call
    /\ Install(g.f)
    /\ facades' = facades \cup {[id |-> calls + 1, name |-> name, logger |-> g.logger]}
    /\ last' = [op |-> "NewLogger", name |-> name, logger |-> g.logger,
                stores |-> g.f.stores]
    /\ UNCHANGED restorers

CallSetLevel(name, l) ==
    LET f == SetLevel(Fac, name, l) IN
    /\ Call
    /\ Install(f)
    /\ last' = [op |-> "SetLevel", name |-> name, level |-> l, stores |-> f.stores]
    /\ UNCHANGED <<facades, restorers>>

CallSetDefaultLevel(l) ==
    LET f == SetDefaultLevel(Fac, l) IN
    /\ Call
    /\ Install(f)
    /\ last' = [op |-> "SetDefaultLevel", level |-> l, stores |-> f.stores]
    /\ UNCHANGED <<facades, restorers>>

CallSetEncoder(e) ==
    LET f == SetEncoder(Fac, e) IN
    /\ Call
    /\ Install(f)
    /\ last' = [op |-> "SetEncoder", e |-> e, stores |-> f.stores]
    /\ UNCHANGED <<facades, restorers>>

\* The caller keeps the returned closure or drops it.  A kept closure is the
\* captured prior, with the sink that was in use before the call (history).
CallSetOut(w, keep) ==
    LET g == SetOut(Fac, w) IN
    /\ Call
    /\ Install(g.f)
    /\ restorers' = IF keep /\ Cardinality(restorers) < MaxRestorers
                    THEN restorers \cup {[prior |-> g.prior, before |-> getOut(Fac)]}
                    ELSE restorers
    /\ last' = [op |-> "SetOut", w |-> w, stores |-> g.f.stores]
    /\ UNCHANGED facades

\* A closure returned by SetOut is called: r.SetOut(prior), result dropped.
CallRestore(c) ==
    LET g == SetOut(Fac, c.prior) IN
    /\ Call
    /\ Install(g.f)
    /\ last' = [op |-> "Restore", c |-> c, stores |-> g.f.stores,
                again |-> (last.op = "Restore")]
    /\ UNCHANGED <<facades, restorers>>

CallSetAddCaller(b) ==
    LET f == SetAddCaller(Fac, b) IN
    /\ Call
    /\ Install(f)
    /\ last' = [op |-> "SetAddCaller", b |-> b, stores |-> f.stores]
    /\ UNCHANGED <<facades, restorers>>

CallLevelsString(s) ==
    LET g == LevelsString(Fac, s) IN
    /\ Call
    /\ Install(g.f)
    /\ last' = [op |-> "LevelsString", s |-> s, err |-> g.err, stores |-> g.f.stores,
                cleared |-> {n \in DOMAIN loggers :
                               /\ infos[loggers[n]].levelEnabler.kind = "Level"
                               /\ g.f.infos[loggers[n]].levelEnabler.kind # "Level"}]
    /\ UNCHANGED <<facades, restorers>>

CallConfigure(cfg) ==
    LET g == Configure(Fac, cfg) IN
    /\ Call
    /\ Install(g.f)
    /\ last' = [op |-> "Configure", cfg |-> cfg, err |-> g.err, stores |-> g.f.stores,
                priorDefault |-> defaultLevel,
                cleared |-> {n \in DOMAIN loggers :
                               /\ infos[loggers[n]].levelEnabler.kind = "Level"
                               /\ g.f.infos[loggers[n]].levelEnabler.kind # "Level"}]
    /\ UNCHANGED <<facades, restorers>>

Next ==
    \/ \E name \in Names : CallNewLogger(name)
    \/ \E name \in Names, l \in Levels : CallSetLevel(name, l)
    \/ \E l \in Levels : CallSetDefaultLevel(l)
    \/ \E e \in EncoderInputs : CallSetEncoder(e)
    \/ \E w \in WriterInputs, keep \in BOOLEAN : CallSetOut(w, keep)
    \/ \E c \in restorers : CallRestore(c)
    \/ \E b \in BOOLEAN : CallSetAddCaller(b)
    \/ \E s \in LevelStrings : CallLevelsString(s)
    \/ \E cfg \in Configs : CallConfigure(cfg)

Spec == Init /\ [][Next]_vars

----------------------------------------------------------------------------
(* The calls run by concurrent threads.  A running call is the sequence of *)
(* steps it has left (th[t].todo); a step is one access to shared memory   *)
(* or one statement run under the lock.  The loops over Go maps visit the  *)
(* handles in any order.                                                   *)

ConcLevels == {DebugLevel}
ConcDefaultLevels == {InfoLevel}
ConcEncoders == {[kind |-> "json", cfg |-> "custom"]}
ConcWriters == {"w1"}
ConcLevelStrings == {S_StarInfHttp, S_HttpWrn, S_Star}
ConcConfigs == {Config(DebugLevel, "json", TRUE, Nil, S_HttpWrn),
                Config(ErrorLevel, "xml", FALSE, "true", S_StarInfHttp),
                Config(InfoLevel, "term", FALSE, Nil, S_HttpDbg)}

DoLock == [i |-> "Lock"]
DoUnlock == [i |-> "Unlock"]
DoStoreDefault(l) == [i |-> "StoreDefault", l |-> l]
DoGetInfo(name) == [i |-> "GetInfo", name |-> name]
DoPublish(name) == [i |-> "Publish", name |-> name]
DoSetField(l) == [i |-> "SetField", l |-> l]
DoReset(levelMap) == [i |-> "Reset", levelMap |-> levelMap]
DoAssignEncoder(e) == [i |-> "AssignEncoder", e |-> e]
DoAssignOut(w) == [i |-> "AssignOut", w |-> w]
DoAssignAddCaller(b) == [i |-> "AssignAddCaller", b |-> b]
DoRefresh == [i |-> "Refresh", started |-> FALSE, names |-> {}]
DoReturn(res) == [i |-> "Return", res |-> res]

ProgNewLogger(name) ==
    <<DoLock, DoGetInfo(name), DoUnlock,
      DoReturn([op |-> "NewLogger", name |-> name])>>

ProgSetLevel(name, l) ==
    <<DoLock, DoGetInfo(name), DoSetField(l), DoRefresh, DoUnlock,
      DoReturn([op |-> "SetLevel", name |-> name, level |-> l])>>

ProgSetDefaultLevel(l) ==
    <<DoStoreDefault(l), DoReturn([op |-> "SetDefaultLevel", level |-> l])>>

ProgSetEncoder(e) ==
    <<DoLock, DoAssignEncoder(e), DoRefresh, DoUnlock,
      DoReturn([op |-> "SetEncoder", e |-> e])>>

ProgSetOut(w, res) ==
    <<DoLock, DoAssignOut(w), DoRefresh, DoUnlock, DoReturn(res)>>

ProgSetAddCaller(b) ==
    <<DoLock, DoAssignAddCaller(b), DoRefresh, DoUnlock,
      DoReturn([op |-> "SetAddCaller", b |-> b])>>

\* The setLevel calls of LevelsString's second loop.
RECURSIVE ProgSetLevels(_, _)
ProgSetLevels(levelMap, names) ==
    IF names = {} THEN <<>>
    ELSE LET name == CHOOSE n \in names : TRUE
         IN  <<DoGetInfo(name), DoSetField(levelMap[name])>>
             \o ProgSetLevels(levelMap, names \ {name})

\* LevelsString up to its return.
ProgLevelsStringBody(s) ==
    LET m == parseConfigString(s)
        levelMap0 == levelMapOf(m)
        levelMap == IF STAR \in DOMAIN levelMap0
                    THEN MapDelete(levelMap0, STAR)
                    ELSE levelMap0
    IN  (IF STAR \in DOMAIN levelMap0 THEN <<DoStoreDefault(levelMap0[STAR])>> ELSE <<>>)
        \o <<DoLock, DoReset(levelMap)>>
        \o ProgSetLevels(levelMap, DOMAIN levelMap)
        \o (IF errMsgsOf(m) # {} THEN <<>> ELSE <<DoRefresh>>)
        \o <<DoUnlock>>

ProgLevelsString(s) ==
    ProgLevelsStringBody(s)
    \o <<DoReturn([op |-> "LevelsString", s |-> s, err |-> errMsgsOf(parseConfigString(s))])>>

\* Configure that takes the lock before it calls LevelsString.
ProgConfigure_lockFirst(cfg) ==
    <<DoStoreDefault(cfg.DefaultLevel)>>
    \o (IF cfg.Encoding \notin Encodings
        THEN <<DoReturn([op |-> "Configure", cfg |-> cfg,
                         err |-> {"is not a valid encoding"}])>>
        ELSE <<DoLock>> \o ProgLevelsStringBody(cfg.Levels)
             \o <<DoAssignEncoder(encoderOf(cfg)),
                  DoAssignAddCaller(IF cfg.AddCaller # Nil
                                    THEN cfg.AddCaller = "true"
                                    ELSE cfg.Development),
                  DoRefresh, DoUnlock,
                  DoReturn([op |-> "Configure", cfg |-> cfg, err |-> {}])>>)

ProgConfigure(cfg) ==
    <<DoStoreDefault(cfg.DefaultLevel)>>
    \o (IF cfg.Encoding \notin Encodings
        THEN <<DoReturn([op |-> "Configure", cfg |-> cfg,
                         err |-> {"is not a valid encoding"}])>>
        ELSE ProgLevelsStringBody(cfg.Levels)
             \o <<DoLock,
                  DoAssignEncoder(encoderOf(cfg)),
                  DoAssignAddCaller(IF cfg.AddCaller # Nil
                                    THEN cfg.AddCaller = "true"
                                    ELSE cfg.Development),
                  DoRefresh, DoUnlock,
                  DoReturn([op |-> "Configure", cfg |-> cfg, err |-> {}])>>)

Idle(t) == th[t].todo = <<>>
Cur(t) == th[t].todo[1]
Rest(t) == Tail(th[t].todo)
At(t, i) == ~Idle(t) /\ Cur(t).i = i

\* The instances the settings of f call for, one per registered name.
Snapshot(f) == {newLogger(f, n, f.infos[f.loggers[n]]) : n \in DOMAIN f.loggers}

Record(f) == existed' = existed \cup Snapshot(f)

\* A thread enters a call.  The threads are alike: of two idle threads the
\* first makes the call.
Enter(t, prog) ==
    /\ \A u \in Threads : Idle(u) => (t = u \/ t = "t1")
    /\ calls < MaxConcCalls
    /\ calls' = calls + 1
    /\ th' = [th EXCEPT ![t] = [IdleThread EXCEPT !.todo = prog, !.id = calls + 1]]
    /\ UNCHANGED <<defaultLevel, encoder, out, addCaller, loggers, infos, facades,
                   restorers, last, lock, existed, arrays, logs>>

BeginNewLogger(t, name) ==
    /\ Idle(t)
    /\ Enter(t, ProgNewLogger(name))

BeginSetLevel(t, name, l) ==
    /\ Idle(t)
    /\ Enter(t, ProgSetLevel(name, l))

BeginSetDefaultLevel(t, l) ==
    /\ Idle(t)
    /\ Enter(t, ProgSetDefaultLevel(l))

BeginSetEncoder(t, e) ==
    /\ Idle(t)
    /\ Enter(t, ProgSetEncoder(e))

BeginSetOut(t, w) ==
    /\ Idle(t)
    /\ Enter(t, ProgSetOut(w, [op |-> "SetOut", w |-> w]))

BeginRestore(t, c) ==
    /\ Idle(t)
    /\ Enter(t, ProgSetOut(c.prior, [op |-> "Restore", c |-> c]))

BeginSetAddCaller(t, b) ==
    /\ Idle(t)
    /\ Enter(t, ProgSetAddCaller(b))

BeginLevelsString(t, s) ==
    /\ Idle(t)
    /\ Enter(t, ProgLevelsString(s))

BeginConfigure(t, cfg) ==
    /\ Idle(t)
    /\ Enter(t, ProgConfigure(cfg))


\* A step that changes the Factory to f and the thread's record to r.
StepTo(t, f, r) ==
    /\ Install(f)
    /\ Record(f)
    /\ th' = [th EXCEPT ![t] = r]
    /\ UNCHANGED <<facades, restorers, last, calls, lock, arrays, logs>>

\* r.Lock()
StepLock(t) ==
    /\ At(t, "Lock")
    /\ lock = Nil
    /\ lock' = t
    /\ th' = [th EXCEPT ![t].todo = Rest(t)]
    /\ UNCHANGED <<defaultLevel, encoder, out, addCaller, loggers, infos, facades,
                   restorers, last, calls, existed, arrays, logs>>

\* the deferred r.Unlock()
StepUnlock(t) ==
    /\ At(t, "Unlock")
    /\ lock = t
    /\ lock' = Nil
    /\ th' = [th EXCEPT ![t].todo = Rest(t)]
    /\ UNCHANGED <<defaultLevel, encoder, out, addCaller, loggers, infos, facades,
                   restorers, last, calls, existed, arrays, logs>>

\* r.defaultLevel.SetLevel(l), an atomic store
StepStoreDefault(t) ==
    /\ At(t, "StoreDefault")
    /\ StepTo(t, SetDefaultLevel(Fac, Cur(t).l), [th[t] EXCEPT !.todo = Rest(t)])

\* getLoggerInfo up to the store into the new handle
StepGetInfo(t) ==
    /\ At(t, "GetInfo")
    /\ LET name == Cur(t).name IN
       IF name \in DOMAIN loggers
       THEN StepTo(t, Fac, [th[t] EXCEPT !.todo = Rest(t), !.info = loggers[name]])
       ELSE LET f == allocInfo(Fac, name) IN
            StepTo(t, f, [th[t] EXCEPT !.todo = <<DoPublish(name)>> \o Rest(t),
                                       !.info = f.loggers[name]])

\* getLoggerInfo returning the new loggerInfo without the store into its handle.
StepPublish_noStore(t) ==
    /\ At(t, "Publish")
    /\ StepTo(t, Fac, [th[t] EXCEPT !.todo = Rest(t)])

\* info.atomicLogger.set(r.newLogger(name, info)) of getLoggerInfo
StepPublish(t) ==
    /\ At(t, "Publish")
    /\ LET name == Cur(t).name
           p == loggers[name]
       IN  StepTo(t, set(Fac, p, newLogger(Fac, name, infos[p])),
                  [th[t] EXCEPT !.todo = Rest(t)])

\* info.levelEnabler = zapcore.Level(l) of setLevel
StepSetField(t) ==
    /\ At(t, "SetField")
    /\ StepTo(t, [Fac EXCEPT !.infos[th[t].info].levelEnabler = FixedLevel(Cur(t).l)],
              [th[t] EXCEPT !.todo = Rest(t)])

\* the first loop of LevelsString
StepReset(t) ==
    /\ At(t, "Reset")
    /\ StepTo(t, resetUnmentioned(Fac, Cur(t).levelMap), [th[t] EXCEPT !.todo = Rest(t)])

\* r.encoder = e
StepAssignEncoder(t) ==
    /\ At(t, "AssignEncoder")
    /\ StepTo(t, [Fac EXCEPT !.encoder = Cur(t).e], [th[t] EXCEPT !.todo = Rest(t)])

\* prior := r.out; r.out = w
StepAssignOut(t) ==
    /\ At(t, "AssignOut")
    /\ StepTo(t, [Fac EXCEPT !.out = Cur(t).w],
              [th[t] EXCEPT !.todo = Rest(t), !.prior = out, !.before = getOut(Fac)])

\* r.addCaller = b
StepAssignAddCaller(t) ==
    /\ At(t, "AssignAddCaller")
    /\ StepTo(t, [Fac EXCEPT !.addCaller = Cur(t).b], [th[t] EXCEPT !.todo = Rest(t)])

\* One turn of the loop of refreshLoggers: the handle of one more name.
StepRefresh(t) ==
    /\ At(t, "Refresh")
    /\ LET names == IF Cur(t).started THEN Cur(t).names ELSE DOMAIN loggers IN
       IF names = {}
       THEN StepTo(t, Fac, [th[t] EXCEPT !.todo = Rest(t)])
       ELSE \E n \in names :
              StepTo(t, refreshNames(Fac, {n}),
                     [th[t] EXCEPT !.todo =
                        IF names = {n} THEN Rest(t)
                        ELSE <<[i |-> "Refresh", started |-> TRUE, names |-> names \ {n}]>>
                             \o Rest(t)])

\* The call returns to its caller: NewLogger hands out the logger bound to
\* the handle, SetOut the closure.
StepReturn(t) ==
    /\ At(t, "Return")
    /\ LET res == Cur(t).res
           l == [atomicLogger |-> th[t].info, context |-> NilSlice]
       IN  /\ facades' = IF res.op = "NewLogger"
                         THEN facades \cup {[id |-> th[t].id, name |-> res.name, logger |-> l]}
                         ELSE facades
           /\ restorers' = IF res.op = "SetOut" /\ Cardinality(restorers) < MaxRestorers
                           THEN restorers \cup {[prior |-> th[t].prior, before |-> th[t].before]}
                           ELSE restorers
           /\ last' = res
    /\ th' = [th EXCEPT ![t] = IdleThread]
    /\ UNCHANGED <<defaultLevel, encoder, out, addCaller, loggers, infos, calls, lock,
                   existed, arrays, logs>>

\* A read that takes the registry lock for the load.
Get_underLock(t, fa) ==
    /\ Idle(t)
    /\ lock = Nil
    /\ last' = [op |-> "Get", fa |-> fa, logger |-> get(infos, fa.logger.atomicLogger),
                held |-> lock]
    /\ UNCHANGED <<defaultLevel, encoder, out, addCaller, loggers, infos, facades,
                   restorers, calls, lock, th, existed, arrays, logs>>

\* A logging call or an Is* query on a logger: l.get(), an atomic load.
\* held: history, the holder of the registry lock at the time of the load.
Get(t, fa) ==
    /\ Idle(t)
    /\ last' = [op |-> "Get", fa |-> fa, logger |-> get(infos, fa.logger.atomicLogger),
                held |-> lock]
    /\ UNCHANGED <<defaultLevel, encoder, out, addCaller, loggers, infos, facades,
                   restorers, calls, lock, th, existed, arrays, logs>>

NextConc ==
    \E t \in Threads :
        \/ \E name \in Names : BeginNewLogger(t, name)
        \/ \E name \in Names, l \in ConcLevels : BeginSetLevel(t, name, l)
        \/ \E l \in ConcDefaultLevels : BeginSetDefaultLevel(t, l)
        \/ \E e \in ConcEncoders : BeginSetEncoder(t, e)
        \/ \E w \in ConcWriters : BeginSetOut(t, w)
        \/ \E c \in restorers : BeginRestore(t, c)
        \/ BeginSetAddCaller(t, TRUE)
        \/ \E s \in ConcLevelStrings : BeginLevelsString(t, s)
        \/ \E cfg \in ConcConfigs : BeginConfigure(t, cfg)
        \/ \E fa \in facades : Get(t, fa)
        \/ StepLock(t)
        \/ StepUnlock(t)
        \/ StepStoreDefault(t)
        \/ StepGetInfo(t)
        \/ StepPublish(t)
        \/ StepSetField(t)
        \/ StepReset(t)
        \/ StepAssignEncoder(t)
        \/ StepAssignOut(t)
        \/ StepAssignAddCaller(t)
        \/ StepRefresh(t)
        \/ StepReturn(t)

SpecConc == Init /\ [][NextConc]_vars

\* The next statement of thread t's running call.
StepOf(t) ==
    \/ StepLock(t)
    \/ StepUnlock(t)
    \/ StepStoreDefault(t)
    \/ StepGetInfo(t)
    \/ StepPublish(t)
    \/ StepSetField(t)
    \/ StepReset(t)
    \/ StepAssignEncoder(t)
    \/ StepAssignOut(t)
    \/ StepAssignAddCaller(t)
    \/ StepRefresh(t)
    \/ StepReturn(t)

FairLevelStrings == {S_StarInfHttp, S_HttpWrn}
FairConfigs == {Config(DebugLevel, "json", TRUE, Nil, S_HttpWrn),
                Config(ErrorLevel, "xml", FALSE, "true", S_StarInfHttp)}

\* The administrative calls of two threads, on one name.
NextFair ==
    \E t \in Threads :
        \/ BeginNewLogger(t, HTTP)
        \/ \E l \in ConcLevels : BeginSetLevel(t, HTTP, l)
        \/ \E l \in ConcDefaultLevels : BeginSetDefaultLevel(t, l)
        \/ \E e \in ConcEncoders : BeginSetEncoder(t, e)
        \/ \E w \in ConcWriters : BeginSetOut(t, w)
        \/ \E c \in restorers : BeginRestore(t, c)
        \/ BeginSetAddCaller(t, TRUE)
        \/ \E s \in FairLevelStrings : BeginLevelsString(t, s)
        \/ \E cfg \in FairConfigs : BeginConfigure(t, cfg)
        \/ StepOf(t)

\* Fair scheduling: a thread whose next statement can run is run in the end.
\* Callers need not make calls.
SpecConcFair ==
    Init /\ [][NextFair]_vars /\ \A t \in Threads : WF_vars(StepOf(t))

----------------------------------------------------------------------------
(* Loggers with context: With, and logging calls of two threads *)

WithArgs == {<<Value("x")>>, <<Value("k"), Value("v")>>}

\* Each thread logs one bare value of its own.
LogArgs(t) == <<Value(t)>>

\* The first logger is made by NewLogger.
LogNewLogger(name) ==
    /\ facades = {}
    /\ CallNewLogger(name)

\* fa.With(args...): the derived logger is handed to the caller.
CallWith(fa, args) ==
    LET w == With(arrays, fa.logger, args)
        child == [id |-> calls + 1, name |-> fa.name, logger |-> w.l]
    IN  /\ Cardinality(facades) <= MaxWith
        /\ calls' = calls + 1
        /\ arrays' = w.h
        /\ facades' = facades \cup {child}
        /\ last' = [op |-> "With", parent |-> fa, args |-> args, child |-> child]
        /\ UNCHANGED <<defaultLevel, encoder, out, addCaller, loggers, infos, restorers,
                       lock, th, existed, logs>>

\* A thread begins a logging call on fa.  The threads are alike: of two idle
\* threads the first makes the call.
BeginLog(t, fa) ==
    /\ Idle(t)
    /\ \A u \in Threads : Idle(u) => (t = u \/ t = "t1")
    /\ logs < MaxLogs
    /\ logs' = logs + 1
    /\ th' = [th EXCEPT ![t] =
                [IdleThread EXCEPT !.todo = ProgLog(fa, LogArgs(t)),
                                   !.merged = [arr |-> 0, len |-> Len(normalizeArgs(LogArgs(t)))],
                                   !.buf = normalizeArgs(LogArgs(t))]]
    /\ UNCHANGED <<defaultLevel, encoder, out, addCaller, loggers, infos, facades,
                   restorers, last, calls, lock, existed, arrays>>

\* l.get()
StepLoad(t) ==
    /\ At(t, "Load")
    /\ th' = [th EXCEPT ![t].todo = Rest(t),
                        ![t].seen = get(infos, Cur(t).fa.logger.atomicLogger)]
    /\ UNCHANGED <<defaultLevel, encoder, out, addCaller, loggers, infos, facades,
                   restorers, last, calls, lock, existed, arrays, logs>>

\* append(l.context, args...): in the context's own array when it has room
\* behind the length, else in a new array only this call knows.
StepMerge(t) ==
    LET ctx == Cur(t).fa.logger.context
        r == append(arrays, ctx, Cur(t).a)
    IN  /\ At(t, "Merge")
        /\ IF r.s.arr = ctx.arr
           THEN /\ arrays' = r.h
                /\ th' = [th EXCEPT ![t].todo = Rest(t), ![t].merged = r.s, ![t].buf = <<>>]
           ELSE /\ arrays' = arrays
                /\ th' = [th EXCEPT ![t].todo = Rest(t),
                                    ![t].merged = [arr |-> 0, len |-> r.s.len],
                                    ![t].buf = r.h[r.s.arr]]
        /\ UNCHANGED <<defaultLevel, encoder, out, addCaller, loggers, infos, facades,
                       restorers, last, calls, lock, existed, logs>>

\* Infow(msg, merged...) and its like: the instance reads the merged slice.
StepForward(t) ==
    LET m == th[t].merged
        sent == IF m.arr = 0 THEN SubSeq(th[t].buf, 1, m.len) ELSE Elems(arrays, m)
    IN  /\ At(t, "Forward")
        /\ last' = [op |-> "Log", fa |-> Cur(t).fa, args |-> Cur(t).args,
                    logger |-> th[t].seen, sent |-> sent]
        /\ th' = [th EXCEPT ![t] = IdleThread]
        /\ UNCHANGED <<defaultLevel, encoder, out, addCaller, loggers, infos, facades,
                       restorers, calls, lock, existed, arrays, logs>>

NextLog ==
    \/ LogNewLogger(HTTP)
    \/ \E fa \in facades, args \in WithArgs : CallWith(fa, args)
    \/ \E t \in Threads :
        \/ \E fa \in facades : BeginLog(t, fa)
        \/ StepLoad(t)
        \/ StepMerge(t)
        \/ StepForward(t)

SpecLog == Init /\ [][NextLog]_vars

----------------------------------------------------------------------------
(* levelForAbbr applied to abbreviations in every spelling *)

ToUpperChar(c) ==
    IF \E i \in 1..26 : LowerCase[i] = c
    THEN UpperCase[CHOOSE i \in 1..26 : LowerCase[i] = c]
    ELSE c

\* The word w with each letter in lower or upper case.
RECURSIVE Spellings(_)
Spellings(w) ==
    IF w = <<>> THEN {<<>>}
    ELSE {<<c>> \o r : c \in {w[1], ToUpperChar(w[1])}, r \in Spellings(Tail(w))}

AbbrWords ==
    {<<>>, <<"o","f","f">>, <<"t","r","c">>, dbg, <<"i","n","f">>, <<"w","r","n">>,
     <<"w","a","r","n">>, <<"e","r","r">>, <<"p","a","n">>, <<"f","t","l">>, bogus,
     <<"w","r","n","g">>}

Abbrs == UNION {Spellings(w) : w \in AbbrWords}

\* An abbreviation is given.
InitAbbr ==
    /\ defaultLevel = OffLevel
    /\ encoder = NilEncoder
    /\ out = Nil
    /\ addCaller = FALSE
    /\ loggers = EmptyMap
    /\ infos = <<>>
    /\ facades = {}
    /\ restorers = {}
    /\ last \in {[op |-> "abbr", abbr |-> a] : a \in Abbrs}
    /\ calls = 0
    /\ lock = Nil
    /\ th = [t \in Threads |-> IdleThread]
    /\ existed = {}
    /\ arrays = <<>>
    /\ logs = 0

CallLevelForAbbr ==
    /\ last.op = "abbr"
    /\ last' = [op |-> "levelForAbbr", abbr |-> last.abbr,
                level |-> levelForAbbr(last.abbr).level,
                err |-> levelForAbbr(last.abbr).err]
    /\ UNCHANGED <<defaultLevel, encoder, out, addCaller, loggers, infos, facades,
                   restorers, calls, lock, th, existed, arrays, logs>>

NextAbbr == CallLevelForAbbr

SpecAbbr == InitAbbr /\ [][NextAbbr]_vars

----------------------------------------------------------------------------
(* Properties *)

\* The loggerInfo of a registered name, and what its handle publishes.
InfoOf(n) == infos[loggers[n]]
PublishedOf(n) == InfoOf(n).innerLoggerPtr

\* The level in force in a published instance.
EffectiveLevel(inst) ==
    IF inst.level = DefaultRef THEN defaultLevel ELSE inst.level.level

\* The instance the current settings call for: encoder and sink with their
\* fallbacks, the caller flag, and the override if set, else the live default.
CurrentInstance(n) ==
    [kind |-> "SugaredLogger",
     name |-> n,
     enc |-> IF encoder = NilEncoder THEN [kind |-> "ltsv", cfg |-> "prod"] ELSE encoder,
     out |-> IF out = Nil THEN "os.Stdout" ELSE out,
     level |-> IF InfoOf(n).levelEnabler.kind = "Level"
               THEN InfoOf(n).levelEnabler
               ELSE DefaultRef,
     addCaller |-> addCaller]

\* C1: after SetEncoder, SetOut, SetAddCaller or SetLevel returns, the handle
\* of every registered name publishes an instance built from the current
\* encoder, sink, caller flag and resolved level, and that is what every
\* logger handed out earlier reads.
C1_RebuildPublishesCurrent ==
    last.op \in {"SetEncoder", "SetOut", "SetAddCaller", "SetLevel"} =>
        /\ \A n \in DOMAIN loggers : PublishedOf(n) = CurrentInstance(n)
        /\ \A fa \in facades :
              get(infos, fa.logger.atomicLogger) = CurrentInstance(fa.name)

C1_Witness ==
    /\ last.op = "SetEncoder"
    /\ encoder # NilEncoder
    /\ Cardinality(DOMAIN loggers) = 2
    /\ \E fa \in facades : fa.id < calls
    /\ \E n \in DOMAIN loggers : InfoOf(n).levelEnabler.kind = "Level"

\* C2: a name's registry entry and handle never change once created, and all
\* loggers handed out for a name, whenever they were requested, are bound to
\* that one handle.
C2_OneHandlePerName ==
    [][/\ \A n \in DOMAIN loggers :
            n \in DOMAIN loggers' /\ loggers'[n] = loggers[n]
       /\ \A a, b \in facades' :
            a.name = b.name =>
                /\ a.logger.atomicLogger = b.logger.atomicLogger
                /\ a.logger.atomicLogger = loggers'[a.name]
                /\ get(infos', a.logger.atomicLogger) = get(infos', b.logger.atomicLogger)]_vars

C2_Witness ==
    \E a, b \in facades :
        /\ a.name = b.name
        /\ b.id > a.id + 1
        /\ last.op = "NewLogger" /\ b.id = calls
        /\ get(infos, a.logger.atomicLogger).enc # [kind |-> "ltsv", cfg |-> "prod"]

\* C3: right after SetDefaultLevel(L) returns, the published instance of every
\* entry without an override enables exactly the severities L enables, and
\* that of every entry with an override enables those of its override.
C3_DefaultLevelImmediate ==
    last.op = "SetDefaultLevel" =>
        \A n \in DOMAIN loggers :
            Enables(EffectiveLevel(PublishedOf(n))) =
                IF InfoOf(n).levelEnabler.kind = "Level"
                THEN Enables(InfoOf(n).levelEnabler.level)
                ELSE Enables(last.level)

\* The items of the level strings, read off the strings themselves.
MentionedNames(s) ==
    CASE s = S_Empty -> {}
      [] s = S_StarInfHttp -> {HTTP}
      [] s = S_StarInfDashHttp -> {HTTP}
      [] s = S_HttpWrn -> {HTTP}
      [] s = S_StarDbgSqlBogus -> {SQL}
      [] s = S_HttpDbg -> {HTTP}
      [] s = S_Star -> {}

HasStarItem(s) == s \in {S_StarInfHttp, S_StarInfDashHttp, S_StarDbgSqlBogus, S_Star}

\* C4: LevelsString(s) that returns no error leaves every entry that existed
\* and is not mentioned in s without an override and with a published
\* instance that reads the default live, and changes the default level only
\* if s has a "*" item.
C4_UnmentionedReset ==
    [][(last'.op = "LevelsString" /\ calls' # calls /\ last'.err = {}) =>
          /\ \A n \in (DOMAIN loggers) \ MentionedNames(last'.s) :
                /\ n \in DOMAIN loggers'
                /\ infos'[loggers'[n]].levelEnabler.kind # "Level"
                /\ infos'[loggers'[n]].innerLoggerPtr.level = DefaultRef
          /\ (~HasStarItem(last'.s) => defaultLevel' = defaultLevel)]_vars

C4_Witness ==
    /\ last.op = "LevelsString"
    /\ last.err = {}
    /\ last.cleared # {}
    /\ last.s = S_HttpDbg
    /\ defaultLevel # OffLevel
    /\ PublishedOf(SQL).level = DefaultRef

\* C5: a bare name is set to ALL, -name to OFF, name=ABBR to the level of
\* ABBR, and "*" sets the default and never becomes an entry; after
\* "*=INF,-http" the default is INFO and http is OFF, after "*=INF,http"
\* http is ALL, in the entry and in the published instance.
C5_LevelStringItems ==
    last.op = "LevelsString" =>
        /\ STAR \notin DOMAIN loggers
        /\ (last.s = S_StarInfDashHttp =>
                /\ defaultLevel = InfoLevel
                /\ HTTP \in DOMAIN loggers
                /\ InfoOf(HTTP).levelEnabler = FixedLevel(OffLevel)
                /\ EffectiveLevel(PublishedOf(HTTP)) = OffLevel)
        /\ (last.s = S_StarInfHttp =>
                /\ defaultLevel = InfoLevel
                /\ HTTP \in DOMAIN loggers
                /\ InfoOf(HTTP).levelEnabler = FixedLevel(AllLevel)
                /\ EffectiveLevel(PublishedOf(HTTP)) = AllLevel)
        /\ (last.s = S_HttpDbg =>
                /\ HTTP \in DOMAIN loggers
                /\ InfoOf(HTTP).levelEnabler = FixedLevel(DebugLevel)
                /\ EffectiveLevel(PublishedOf(HTTP)) = DebugLevel)
        /\ (last.s = S_HttpWrn =>
                /\ HTTP \in DOMAIN loggers
                /\ InfoOf(HTTP).levelEnabler = FixedLevel(InfoLevel))
        /\ (last.s = S_StarDbgSqlBogus => defaultLevel = DebugLevel)
        /\ (last.s = S_Star => defaultLevel = AllLevel)

C5_Witness ==
    /\ last.op = "LevelsString"
    /\ last.s = S_StarInfDashHttp
    /\ EffectiveLevel(PublishedOf(HTTP)) = OffLevel
    /\ SQL \in DOMAIN loggers
    /\ EffectiveLevel(PublishedOf(SQL)) = InfoLevel

\* C6: when LevelsString returns an error, the settings are nevertheless in
\* force in the published instances: every entry's handle publishes the
\* instance its override, or the default, calls for.
C6_ErrorStillPublishes ==
    (last.op = "LevelsString" /\ last.err # {}) =>
        \A n \in DOMAIN loggers : PublishedOf(n) = CurrentInstance(n)

\* C7 as stated: SetLevel on a name without an entry creates no entry.
C7_SetLevelCreatesNoEntry ==
    [][(last'.op = "SetLevel" /\ calls' # calls /\ last'.name \notin DOMAIN loggers) =>
          last'.name \notin DOMAIN loggers']_vars

\* C7 amended: SetLevel on a name without an entry creates the entry with the
\* override, published in its handle; a later NewLogger of a registered name
\* binds the logger to the existing entry and leaves entry and handle as
\* they are.
C7_SetLevelCreatesEntry ==
    [][/\ (last'.op = "SetLevel" /\ calls' # calls /\ last'.name \notin DOMAIN loggers) =>
            /\ last'.name \in DOMAIN loggers'
            /\ infos'[loggers'[last'.name]].levelEnabler = FixedLevel(last'.level)
            /\ infos'[loggers'[last'.name]].innerLoggerPtr.level = FixedLevel(last'.level)
       /\ (last'.op = "NewLogger" /\ calls' # calls /\ last'.name \in DOMAIN loggers) =>
            /\ loggers' = loggers
            /\ infos' = infos
            /\ last'.logger.atomicLogger = loggers[last'.name]]_vars

C7_Witness ==
    /\ last.op = "NewLogger"
    /\ last.stores = {}
    /\ \A fa \in facades : fa.name = last.name => fa.id = calls
    /\ InfoOf(last.name).levelEnabler.kind = "Level"
    /\ get(infos, last.logger.atomicLogger).level = InfoOf(last.name).levelEnabler

\* C8: whenever a closure returned by SetOut is called, the sink becomes the
\* one that was in use right before that SetOut call and every entry is
\* republished with it; calling it again gives the same.
C8_RestorerReinstates ==
    last.op = "Restore" =>
        /\ (IF out = Nil THEN "os.Stdout" ELSE out) = last.c.before
        /\ \A n \in DOMAIN loggers :
              /\ PublishedOf(n).out = last.c.before
              /\ loggers[n] \in last.stores

C8_Witness ==
    /\ last.op = "Restore"
    /\ last.again
    /\ DOMAIN loggers # {}
    /\ last.c.prior = Nil
    /\ \A n \in DOMAIN loggers : PublishedOf(n).out = "os.Stdout"

\* C9: Configure with an unrecognized Encoding returns an error, leaves
\* encoder, sink and caller flag as they were and stores into no handle.
C9_InvalidEncodingNoMutation ==
    [][(last'.op = "Configure" /\ calls' # calls /\ last'.cfg.Encoding = "xml") =>
          /\ last'.err # {}
          /\ encoder' = encoder
          /\ out' = out
          /\ addCaller' = addCaller
          /\ last'.stores = {}
          /\ loggers' = loggers
          /\ \A p \in DOMAIN infos : infos'[p].innerLoggerPtr = infos[p].innerLoggerPtr]_vars

C9_Witness ==
    /\ last.op = "Configure"
    /\ last.err # {}
    /\ last.cfg.AddCaller = "true"
    /\ ~addCaller
    /\ DOMAIN loggers = {HTTP, SQL}
    /\ defaultLevel = last.cfg.DefaultLevel

\* C10: a logger is handed out only once its handle is populated, so under any
\* interleaving every get() returns a whole instance: one stored by the
\* entry's creation or by a rebuild pass, built for the name from settings
\* that existed together in some state.
C10_ReadsSeePublished ==
    /\ \A fa \in facades :
          /\ fa.logger.atomicLogger \in DOMAIN infos
          /\ get(infos, fa.logger.atomicLogger) # NoLogger
    /\ last.op = "Get" =>
          /\ last.logger # NoLogger
          /\ last.logger.kind = "SugaredLogger"
          /\ last.logger.name = last.fa.name
          /\ last.logger \in existed

\* A read was served while another thread, holding the lock, had entered a
\* new entry whose handle is still empty.
C10_Witness ==
    /\ last.op = "Get"
    /\ lock # Nil
    /\ \E p \in DOMAIN infos : infos[p].innerLoggerPtr = NoLogger

\* The level settings of a Factory: the default, and per registered name its
\* override or that it follows the default.
LevelSettings(f) ==
    [default |-> f.defaultLevel,
     names |-> [n \in DOMAIN f.loggers |->
                  IF f.infos[f.loggers[n]].levelEnabler.kind = "Level"
                  THEN f.infos[f.loggers[n]].levelEnabler
                  ELSE DefaultRef]]

\* The new Factory, and the level settings after LevelsString(a) and then
\* LevelsString(b) were run on it, one after the other.
NewFactory ==
    [defaultLevel |-> OffLevel, encoder |-> NilEncoder, out |-> Nil, addCaller |-> FALSE,
     loggers |-> EmptyMap, infos |-> <<>>, stores |-> {}]

OneAfterTheOther(a, b) ==
    LevelSettings(LevelsString(LevelsString(NewFactory, a).f, b).f)

\* C11: when two LevelsString calls have run concurrently on a new Factory
\* (one has returned, the other has unlocked and is about to return), the
\* default level and the overrides are those of running the two calls one
\* after the other in some order.
C11_LevelsStringSerializable ==
    \A t \in Threads :
        (/\ calls = 2
         /\ At(t, "Return")
         /\ Cur(t).res.op = "LevelsString"
         /\ \A u \in Threads \ {t} : Idle(u)
         /\ last.op = "LevelsString") =>
            LevelSettings(Fac) \in {OneAfterTheOther(last.s, Cur(t).res.s),
                                    OneAfterTheOther(Cur(t).res.s, last.s)}

\* Thread t is in Configure(cfg), between the return of its LevelsString call
\* (factory.go:316) and the Lock of line 317.
BetweenLocks(t) ==
    /\ Len(th[t].todo) = 6
    /\ th[t].todo[1] = DoLock
    /\ th[t].todo[2].i = "AssignEncoder"
    /\ th[t].todo[6].res.op = "Configure"

\* The overrides of the level string s are in force in the published instances.
OverridesPublished(s) ==
    LET levelMap == levelMapOf(parseConfigString(s)) IN
    \A n \in DOMAIN levelMap \ {STAR} :
        /\ n \in DOMAIN loggers
        /\ PublishedOf(n).level = FixedLevel(levelMap[n])

\* C12: Configure is one event: there is no state that other threads can read
\* or act on (the lock is free, another thread is idle and holds a logger) in
\* which a running Configure(cfg) has published cfg's levels but the Factory's
\* encoder is not yet cfg's.
C12_ConfigureOneEvent ==
    \A t \in Threads :
        ~(/\ BetweenLocks(t)
          /\ lock = Nil
          /\ \E u \in Threads \ {t} : Idle(u)
          /\ \E fa \in facades : fa.name \in MentionedNames(th[t].todo[6].res.cfg.Levels)
          /\ OverridesPublished(th[t].todo[6].res.cfg.Levels)
          /\ encoder # encoderOf(th[t].todo[6].res.cfg))

\* The context of a logger handed out, as the heap holds it now and after the step.
ContextOf(fa) == Elems(arrays, fa.logger.context)
ContextOfNext(fa) == Elems(arrays', fa.logger.context)

\* The fields the logging calls of the threads add.
LogFields == UNION {{normalizeArgs(LogArgs(t))[i] : i \in 1..Len(normalizeArgs(LogArgs(t)))} :
                    t \in Threads}

\* C13: no step (With on it or on another logger, a logging call through it
\* or through a child) changes the context of a logger handed out; the derived
\* logger's context is the parent's followed by the normalized arguments; and
\* what a logging call sends starts with its own logger's context and goes on
\* with as many fields as it was given, none of them a field added by With.
C13_WithLeavesParent ==
    [][/\ \A fa \in facades : ContextOfNext(fa) = ContextOf(fa)
       /\ (last'.op = "With" /\ calls' # calls) =>
              ContextOfNext(last'.child) =
                  ContextOf(last'.parent) \o normalizeArgs(last'.args)
       /\ (\E t \in Threads : At(t, "Forward") /\ th'[t].todo = <<>>) =>
              /\ Len(last'.sent) = Len(ContextOf(last'.fa)) + Len(normalizeArgs(last'.args))
              /\ SubSeq(last'.sent, 1, Len(ContextOf(last'.fa))) = ContextOf(last'.fa)
              /\ \A i \in Len(ContextOf(last'.fa)) + 1 .. Len(last'.sent) :
                     last'.sent[i] \in LogFields
      ]_vars

\* A parent with a context and two children that added different fields, and
\* a logging call through the parent that sent the parent's context and the
\* call's own field.
C13_Witness ==
    /\ last.op = "Log"
    /\ Len(ContextOf(last.fa)) > 0
    /\ last.sent = ContextOf(last.fa) \o normalizeArgs(last.args)
    /\ \E c1, c2 \in facades :
          /\ ContextOf(c1) = ContextOf(last.fa) \o <<Field("", "x")>>
          /\ ContextOf(c2) = ContextOf(last.fa) \o <<Value("k"), Value("v")>>
          /\ c1.logger.context.arr # last.fa.logger.context.arr
          /\ c2.logger.context.arr # c1.logger.context.arr

\* C14: a read through a logger takes no lock: whoever holds the registry
\* lock, every thread that is in no call can do the load on every logger
\* handed out, and the load leaves the lock as it is.
C14_ReadsTakeNoLock ==
    \A t \in Threads, fa \in facades :
        Idle(t) => ENABLED (Get(t, fa) /\ lock' = lock)

\* A read was done while another thread held the registry lock.
C14_Witness ==
    /\ last.op = "Get"
    /\ last.held # Nil
    /\ lock = last.held

\* C15: levelForAbbr gives every spelling of an abbreviation the level and the
\* note (or none) of its lower-case spelling; "wrn" in any case gives a level
\* that enables what INFO enables, with the deprecation note; an abbreviation
\* that is not recognized gives the WARN level, which enables what INFO
\* enables, with the "not recognized" note; off, dbg, inf and err give their
\* levels without a note.
C15_LevelForAbbr ==
    last.op = "levelForAbbr" =>
        LET a == ToLower(last.abbr) IN
        /\ \A b \in Abbrs :
              ToLower(b) = a =>
                  /\ levelForAbbr(b).level = last.level
                  /\ (levelForAbbr(b).err = Nil) = (last.err = Nil)
        /\ a = <<"w","r","n">> =>
              /\ Enables(last.level) = Enables(InfoLevel)
              /\ last.err = "WRN is deprecated, use INF"
        /\ a \in {bogus, <<"w","r","n","g">>} =>
              /\ last.level = WarnLevel
              /\ Enables(last.level) = Enables(InfoLevel)
              /\ last.err = "not recognized level, defaulting to warn"
        /\ a = <<"o","f","f">> => (last.level = OffLevel /\ last.err = Nil)
        /\ a = dbg => (last.level = DebugLevel /\ last.err = Nil)
        /\ a = <<"i","n","f">> => (last.level = InfoLevel /\ last.err = Nil)
        /\ a = <<"e","r","r">> => (last.level = ErrorLevel /\ last.err = Nil)

\* levelForAbbr("WRN") has returned its level and a note.
C15_Witness ==
    /\ last.op = "levelForAbbr"
    /\ last.abbr = WRN
    /\ last.err # Nil
    /\ Enables(last.level) = Enables(InfoLevel)

\* C16: what a logging call sends to the instance is the context of its
\* logger followed by the call's own normalized arguments, also when another
\* thread logs through the same logger at the same time.
C16_LogSendsOwnArgs ==
    last.op = "Log" =>
        last.sent = ContextOf(last.fa) \o normalizeArgs(last.args)

\* C17: no thread comes to r.Lock() while it holds the lock, no thread that
\* is in no call holds the lock, and under fair scheduling every call that was
\* begun returns.
C17_CallsComplete ==
    /\ [](\A t \in Threads : (At(t, "Lock") \/ Idle(t)) => lock # t)
    /\ \A t \in Threads : (~Idle(t)) ~> Idle(t)

\* Configure has come back from LevelsString and waits for its second
\* locked section while the other thread holds the lock.
C17_Witness ==
    \E t, u \in Threads :
        /\ t # u
        /\ BetweenLocks(t)
        /\ lock = u

\* C18: a Configure call that returns an error is one with an unrecognized
\* Encoding, and it has stored cfg.DefaultLevel as the default level, which
\* every published instance that reads the default now has as its level; the
\* entries with their overrides, the encoder, the sink and the caller flag are
\* as before the call.
C18_FailedConfigureMovesDefault ==
    [][(last'.op = "Configure" /\ calls' # calls /\ last'.err # {}) =>
          /\ last'.cfg.Encoding \notin Encodings
          /\ defaultLevel' = last'.cfg.DefaultLevel
          /\ loggers' = loggers
          /\ \A p \in DOMAIN infos :
                /\ infos'[p].levelEnabler = infos[p].levelEnabler
                /\ infos[p].innerLoggerPtr.level = DefaultRef =>
                      /\ infos'[p].innerLoggerPtr.level = DefaultRef
                      /\ Enables(defaultLevel') = Enables(last'.cfg.DefaultLevel)
          /\ encoder' = encoder
          /\ out' = out
          /\ addCaller' = addCaller]_vars

\* A failed Configure moved the default level while one entry follows the
\* default and another has an override.
C18_Witness ==
    /\ last.op = "Configure"
    /\ last.err # {}
    /\ last.priorDefault # defaultLevel
    /\ defaultLevel = last.cfg.DefaultLevel
    /\ \E n, m \in DOMAIN loggers :
          /\ PublishedOf(n).level = DefaultRef
          /\ InfoOf(m).levelEnabler.kind = "Level"
          /\ PublishedOf(m).level = InfoOf(m).levelEnabler

\* The level of the "*" item of the level strings that have one.
StarLevelOf(s) ==
    CASE s = S_StarInfHttp -> InfoLevel
      [] s = S_StarInfDashHttp -> InfoLevel
      [] s = S_StarDbgSqlBogus -> DebugLevel
      [] s = S_Star -> AllLevel

\* C19: Configure returns nil exactly when cfg.Encoding is recognized,
\* whatever the abbreviations in cfg.Levels; and when it has returned nil,
\* every entry's published instance is the one the settings call for, with
\* the override of each name cfg.Levels mentions and the live default for
\* every other entry.
C19_ConfigureDropsLevelsError ==
    last.op = "Configure" =>
        /\ (last.err = {}) = (last.cfg.Encoding \in Encodings)
        /\ last.err = {} =>
              /\ \A n \in DOMAIN loggers : PublishedOf(n) = CurrentInstance(n)
              /\ OverridesPublished(last.cfg.Levels)
              /\ \A n \in DOMAIN loggers \ MentionedNames(last.cfg.Levels) :
                    PublishedOf(n).level = DefaultRef

\* Configure returned nil for levels "http=WRN", whose abbreviation is
\* deprecated; http's published instance has the override and another entry's
\* override was reset.
C19_Witness ==
    /\ last.op = "Configure"
    /\ last.err = {}
    /\ last.cfg.Levels = S_HttpWrn
    /\ errMsgsOf(parseConfigString(last.cfg.Levels)) # {}
    /\ PublishedOf(HTTP).level = FixedLevel(WarnLevel)
    /\ SQL \in last.cleared
    /\ PublishedOf(SQL).level = DefaultRef

\* C20: when Configure has returned nil, the default level is the level of
\* the "*" item of cfg.Levels if it has one and cfg.DefaultLevel otherwise;
\* every entry whose name cfg.Levels does not mention has no override and a
\* published instance that reads the default; with empty Levels no entry has
\* an override.
C20_ConfigureLevels ==
    (last.op = "Configure" /\ last.err = {}) =>
        /\ defaultLevel = IF HasStarItem(last.cfg.Levels)
                          THEN StarLevelOf(last.cfg.Levels)
                          ELSE last.cfg.DefaultLevel
        /\ \A n \in DOMAIN loggers \ MentionedNames(last.cfg.Levels) :
              /\ InfoOf(n).levelEnabler.kind # "Level"
              /\ PublishedOf(n).level = DefaultRef
              /\ EffectiveLevel(PublishedOf(n)) = defaultLevel
        /\ last.cfg.Levels = S_Empty =>
              \A n \in DOMAIN loggers : InfoOf(n).levelEnabler.kind # "Level"

\* Configure returned nil for levels with a "*" item whose level is not
\* cfg.DefaultLevel, and reset the override of an entry it does not mention.
C20_Witness ==
    /\ last.op = "Configure"
    /\ last.err = {}
    /\ HasStarItem(last.cfg.Levels)
    /\ defaultLevel # last.cfg.DefaultLevel
    /\ \E n \in last.cleared : n \notin MentionedNames(last.cfg.Levels)

====
